---- MODULE Spec2Model ----
(***************************************************************************)
(* Model of the Plan 7 search profile (h3/p7_profile.c): creation and      *)
(* destruction of a P7_PROFILE, the transition accessor p7_profile_GetT,   *)
(* p7_profile_Validate, and the MPI send/receive pair.                     *)
(* The reference DP matrix P7_REFMX (src/p7_refmx.h) follows, with its      *)
(* growth, reuse and cell addressing.                                      *)
(*                                                                         *)
(* Memory is modelled as the code lays it out: every score table is one    *)
(* flat buffer (a sequence, offset o stored at index o+1) reached through  *)
(* row pointers that are offsets into it.                                  *)
(***************************************************************************)
EXTENDS Integers, Sequences, FiniteSets, TLC

VARIABLES gm, ret, heap, chan, mpi, thr, rmx

vars == <<gm, ret, heap, chan, mpi, thr, rmx>>

(***************************************************************************)
(* Bounds of the model.                                                    *)
(***************************************************************************)
MaxM == 3

NULL == "NULL"

\* The null P7_PROFILE pointer.
NoProfile == [null |-> TRUE]

\* The null P7_REFMX pointer.
NoRefmx == [null |-> TRUE]

(***************************************************************************)
(* Constants of hmmer.h / easel.h.                                         *)
(***************************************************************************)
p7_TMM == 0
p7_TMI == 1
p7_TMD == 2
p7_TIM == 3
p7_TII == 4
p7_TDM == 5
p7_TDD == 6

p7_XTN == 0
p7_XTE == 1
p7_XTC == 2
p7_XTJ == 3

p7_MOVE == 0
p7_LOOP == 1

p7_IMPOSSIBLE == -987654321

p7_NO_MODE == 0

p7_LOCAL == 1

C_FALSE == 0

\* The state types of a trace; "BOGUS" stands for any value of <st> that is
\* none of the p7_ST* codes.
StateTypes == {"S", "N", "B", "M", "D", "I", "E", "J", "C", "T", "BOGUS"}

\* Digital alphabets: K canonical residues, Kp symbols in all; the gap symbol
\* is K and the missing-data symbol is Kp-1.
Alphabets == {[K |-> 1, Kp |-> 4], [K |-> 2, Kp |-> 5], [K |-> 3, Kp |-> 6]}

esl_abc_XGetGap(abc) == abc.K

esl_abc_XGetMissing(abc) == abc.Kp - 1

(***************************************************************************)
(* Addressing of the tables built by p7_profile_Create.                    *)
(*   tsc[x] = tsc[0] + x*M        (x = 0..6)                                *)
(*   msc[x] = msc[0] + x*(M+1)    (x = 0..Kp-1)                             *)
(*   isc[x] = isc[0] + x*M        (x = 0..Kp-1)                             *)
(***************************************************************************)
TscSize(M) == 7 * M

MscSize(M, abc) == abc.Kp * (M + 1)

IscSize(M, abc) == abc.Kp * M

\* Rows placed M-1 cells apart.
TscAddr_ShortStride(M, x, k) == x * (M - 1) + k

TscAddr(M, x, k) == x * M + k

MscAddr(M, x, k) == x * (M + 1) + k

IscAddr(M, x, k) == x * M + k

XAddr(i, j) == 2 * i + j

\* gm->tsc[x][k]: a load from tsc[0] + x*M + k.  The buffer has 7*M cells;
\* a load one cell beyond it yields the memory word that follows the buffer
\* (tsc_past), whatever that word currently holds.
TscLoad(p, x, k) ==
  LET o == TscAddr(p.M, x, k)
  IN  IF o < TscSize(p.M) THEN p.tsc[o + 1] ELSE p.tsc_past

XscLoad(p, i, j) == p.xsc[XAddr(i, j) + 1]

(***************************************************************************)
(* p7_profile_GetT                                                         *)
(***************************************************************************)
GetT_OK(tsc) == [status |-> "eslOK", tsc |-> tsc]

\* ESL_XEXCEPTION(eslEINVAL, ...): status = eslEINVAL; goto ERROR, where
\* *ret_tsc = 0 and status is returned.
GetT_ERROR == [status |-> "eslEINVAL", tsc |-> 0]

GetT_STN(p, st2, k1, k2) ==
  CASE st2 = "B" -> GetT_OK(XscLoad(p, p7_XTN, p7_MOVE))
    [] st2 = "N" -> GetT_OK(XscLoad(p, p7_XTN, p7_LOOP))
    [] OTHER     -> GetT_ERROR

GetT_STB_k1(p, st2, k1, k2) ==
  CASE st2 = "M" -> GetT_OK(p.bsc[k1 + 1])
    [] OTHER     -> GetT_ERROR

GetT_STB(p, st2, k1, k2) ==
  CASE st2 = "M" -> GetT_OK(p.bsc[k2 + 1])
    [] OTHER     -> GetT_ERROR

GetT_STM(p, st2, k1, k2) ==
  CASE st2 = "M" -> GetT_OK(TscLoad(p, p7_TMM, k1))
    [] st2 = "I" -> GetT_OK(TscLoad(p, p7_TMI, k1))
    [] st2 = "D" -> GetT_OK(TscLoad(p, p7_TMD, k1))
    [] st2 = "E" -> GetT_OK(p.esc[k1 + 1])
    [] OTHER     -> GetT_ERROR

GetT_STD(p, st2, k1, k2) ==
  CASE st2 = "M" -> GetT_OK(TscLoad(p, p7_TDM, k1))
    [] st2 = "D" -> GetT_OK(TscLoad(p, p7_TDD, k1))
    [] OTHER     -> GetT_ERROR

GetT_STI(p, st2, k1, k2) ==
  CASE st2 = "M" -> GetT_OK(TscLoad(p, p7_TIM, k1))
    [] st2 = "I" -> GetT_OK(TscLoad(p, p7_TII, k1))
    [] OTHER     -> GetT_ERROR

GetT_STE(p, st2, k1, k2) ==
  CASE st2 = "C" -> GetT_OK(XscLoad(p, p7_XTE, p7_MOVE))
    [] st2 = "J" -> GetT_OK(XscLoad(p, p7_XTE, p7_LOOP))
    [] OTHER     -> GetT_ERROR

GetT_STJ(p, st2, k1, k2) ==
  CASE st2 = "B" -> GetT_OK(XscLoad(p, p7_XTJ, p7_MOVE))
    [] st2 = "J" -> GetT_OK(XscLoad(p, p7_XTJ, p7_LOOP))
    [] OTHER     -> GetT_ERROR

GetT_STC(p, st2, k1, k2) ==
  CASE st2 = "T" -> GetT_OK(XscLoad(p, p7_XTC, p7_MOVE))
    [] st2 = "C" -> GetT_OK(XscLoad(p, p7_XTC, p7_LOOP))
    [] OTHER     -> GetT_ERROR

\* The outer switch on st1.  The cases p7_STS and p7_STT only break: tsc
\* keeps its initial 0 and the function returns eslOK.
p7_profile_GetT(p, st1, k1, st2, k2) ==
  CASE st1 = "S" -> GetT_OK(0)
    [] st1 = "T" -> GetT_OK(0)
    [] st1 = "N" -> GetT_STN(p, st2, k1, k2)
    [] st1 = "B" -> GetT_STB(p, st2, k1, k2)
    [] st1 = "M" -> GetT_STM(p, st2, k1, k2)
    [] st1 = "D" -> GetT_STD(p, st2, k1, k2)
    [] st1 = "I" -> GetT_STI(p, st2, k1, k2)
    [] st1 = "E" -> GetT_STE(p, st2, k1, k2)
    [] st1 = "J" -> GetT_STJ(p, st2, k1, k2)
    [] st1 = "C" -> GetT_STC(p, st2, k1, k2)
    [] OTHER     -> GetT_ERROR

(***************************************************************************)
(* Profiles handed to the accessors: every cell of every table holds a     *)
(* value of its own, so that a load from a wrong cell shows.               *)
(***************************************************************************)
PatternProfile(M, abc, seed) ==
  [ M           |-> M,
    abc         |-> abc,
    mode        |-> p7_LOCAL,
    tsc         |-> [i \in 1..TscSize(M)      |-> seed + 100 + i],
    tsc_past    |-> seed + 199,
    msc         |-> [i \in 1..MscSize(M, abc) |-> seed + 200 + i],
    isc         |-> [i \in 1..IscSize(M, abc) |-> seed + 300 + i],
    xsc         |-> [i \in 1..8               |-> seed + 400 + i],
    bsc         |-> [i \in 1..(M + 1)         |-> seed + 500 + i],
    esc         |-> [i \in 1..(M + 1)         |-> seed + 600 + i],
    xt          |-> [i \in 1..8               |-> seed + 700 + i],
    begin       |-> [i \in 1..(M + 1)         |-> seed + 800 + i],
    end         |-> [i \in 1..(M + 1)         |-> seed + 900 + i],
    do_lcorrect |-> 1,
    lscore      |-> seed + 50,
    h2_mode     |-> 1,
    hmm         |-> "hmm",
    bg          |-> "bg" ]

NoRet == [op |-> "none"]

NoHeap == [obj |-> NoProfile, live |-> {}, log |-> <<>>, faults |-> {}]

NoMpi == [sent |-> <<>>, eod |-> FALSE, abc |-> [K |-> 2, Kp |-> 5], bg |-> "worker bg",
          got |-> <<>>, st |-> <<>>, log |-> <<>>, created |-> 0, state |-> "run"]

(***************************************************************************)
(* SpecGetT: transition lookups on a configured profile.                   *)
(***************************************************************************)
InitGetT ==
  /\ gm \in {PatternProfile(M, [K |-> 1, Kp |-> 4], 0) : M \in 1..MaxM}
  /\ ret = NoRet
  /\ heap = NoHeap
  /\ rmx = NoRefmx
  /\ chan = <<>>
  /\ mpi = NoMpi
  /\ thr = <<>>

GetT ==
  \E st1 \in StateTypes, st2 \in StateTypes, k1 \in 0..gm.M, k2 \in 0..gm.M :
    /\ ret' = [op |-> "GetT", st1 |-> st1, k1 |-> k1, st2 |-> st2, k2 |-> k2,
               res |-> p7_profile_GetT(gm, st1, k1, st2, k2)]
    /\ UNCHANGED <<rmx, gm, heap, chan, mpi, thr>>

NextGetT == GetT

SpecGetT == InitGetT /\ [][NextGetT]_vars

(***************************************************************************)
(* p7_profile_Create and p7_profile_Destroy.                               *)
(*                                                                         *)
(* The heap is the set of live blocks, the sequence of blocks freed so     *)
(* far, and the set of memory faults committed.  A P7_PROFILE under        *)
(* construction is the record of its pointer fields (obj.f) and of the     *)
(* first slot of each of its three pointer tables (obj.slot); a pointer is *)
(* NULL, the name of a block, or UNINIT when nothing has been stored in    *)
(* it since malloc.                                                        *)
(***************************************************************************)
UNINIT == "UNINIT"

PtrFields == {"tsc", "msc", "isc", "bsc", "esc", "begin", "end"}

Tables == {"tsc", "msc", "isc"}

\* The allocations of Create, in program order.  Block "tsc0" is the buffer
\* gm->tsc[0], and so on.
AllocPlan == <<"gm", "tsc", "msc", "isc", "bsc", "esc", "begin", "end",
               "tsc0", "msc0", "isc0">>

NAlloc == Len(AllocPlan)

BufferOf(t) == CASE t = "tsc" -> "tsc0" [] t = "msc" -> "msc0" [] t = "isc" -> "isc0"

\* malloc() has just returned the structure: nothing in it is initialised.
FreshObj == [f |-> [x \in PtrFields |-> UNINIT], slot |-> [t \in Tables |-> UNINIT]]

\* Lines 44-46: gm->tsc = gm->msc = gm->isc = NULL; ... gm->begin = gm->end = NULL.
Create_Level0(o) == [o EXCEPT !.f = [x \in PtrFields |-> NULL]]

\* One ESL_ALLOC of Create: block b is the i-th allocation; it fails when
\* i = failAt.  ESL_ALLOC stores malloc's result in the pointer before it
\* tests it, so a failed allocation leaves NULL there.
Create_Alloc(h, i, failAt) ==
  LET b  == AllocPlan[i]
      pt == IF i = failAt THEN NULL ELSE b
      lv == IF i = failAt THEN h.live ELSE h.live \cup {b}
  IN  CASE b = "gm" ->
             [h EXCEPT !.live = lv,
                       !.obj = IF pt = NULL THEN NoProfile ELSE Create_Level0(FreshObj)]
        [] b \in Tables ->
             \* ESL_ALLOC(gm->tsc, ...); gm->tsc[0] = NULL;
             [h EXCEPT !.live = lv,
                       !.obj.f[b] = pt,
                       !.obj.slot[b] = IF pt = NULL THEN UNINIT ELSE NULL]
        [] b \in {"bsc", "esc", "begin", "end"} ->
             [h EXCEPT !.live = lv, !.obj.f[b] = pt]
        [] b = "tsc0" -> [h EXCEPT !.live = lv, !.obj.slot["tsc"] = pt]
        [] b = "msc0" -> [h EXCEPT !.live = lv, !.obj.slot["msc"] = pt]
        [] b = "isc0" -> [h EXCEPT !.live = lv, !.obj.slot["isc"] = pt]

\* The allocations from the i-th on, stopping at the one that fails
\* (goto ERROR).
RECURSIVE Create_Allocs(_, _, _)
Create_Allocs(h, i, failAt) ==
  IF i > NAlloc THEN h
  ELSE LET h2 == Create_Alloc(h, i, failAt)
       IN  IF i = failAt THEN h2 ELSE Create_Allocs(h2, i + 1, failAt)

\* free(ptr)
Free(h, ptr) ==
  CASE ptr = NULL     -> h
    [] ptr = UNINIT   -> [h EXCEPT !.faults = @ \cup {"free of an uninitialised pointer"}]
    [] ptr \in h.live -> [h EXCEPT !.live = @ \ {ptr}, !.log = Append(@, ptr)]
    [] OTHER          -> [h EXCEPT !.faults = @ \cup {"double free"}]

\* A read of pointer field x of the structure.
FieldRead(h, x) ==
  IF h.obj.f[x] = UNINIT
    THEN [h EXCEPT !.faults = @ \cup {"read of an uninitialised field"}]
    ELSE h

\* A read of gm->t[0] through the pointer table t.
SlotRead(h, t) ==
  CASE h.obj.f[t] \notin h.live ->
         [h EXCEPT !.faults = @ \cup {"read through a freed pointer table"}]
    [] h.obj.slot[t] = UNINIT ->
         [h EXCEPT !.faults = @ \cup {"read of an uninitialised field"}]
    [] OTHER -> h

\* if (gm->t != NULL) free(gm->t[0]);  -- the test of gm->t[0] left out.
Destroy_Buffer_NoSlotTest(h, t) ==
  LET h1 == FieldRead(h, t)
  IN  IF h1.obj.f[t] = NULL THEN h1 ELSE Free(h1, BufferOf(t))

\* if (gm->t != NULL && gm->t[0] != NULL) free(gm->t[0]);
Destroy_Buffer(h, t) ==
  LET h1 == FieldRead(h, t)
  IN  IF h1.obj.f[t] = NULL THEN h1
      ELSE LET h2 == SlotRead(h1, t)
           IN  IF h2.obj.slot[t] = NULL THEN h2 ELSE Free(h2, h2.obj.slot[t])

\* if (gm->x != NULL) free(gm->x);
Destroy_Field(h, x) ==
  LET h1 == FieldRead(h, x)
  IN  IF h1.obj.f[x] = NULL THEN h1 ELSE Free(h1, h1.obj.f[x])

DestroyOrder == <<"tsc", "msc", "isc", "bsc", "esc", "begin", "end">>

RECURSIVE Destroy_Fields(_, _)
Destroy_Fields(h, i) ==
  IF i > Len(DestroyOrder) THEN h
  ELSE Destroy_Fields(Destroy_Field(h, DestroyOrder[i]), i + 1)

\* p7_profile_Destroy(gm)
p7_profile_Destroy(h) ==
  IF h.obj = NoProfile
    THEN h                                   \* free(NULL)
    ELSE LET h1 == Destroy_Buffer(h, "tsc")
             h2 == Destroy_Buffer(h1, "msc")
             h3 == Destroy_Buffer(h2, "isc")
             h4 == Destroy_Fields(h3, 1)
         IN  [Free(h4, "gm") EXCEPT !.obj = NoProfile]

(***************************************************************************)
(* The profile p7_profile_Create returns when every allocation succeeds.   *)
(***************************************************************************)
\* What malloc'ed memory may hold before anything is stored in it.
Garbage == {0, 77}

\* The structure and its buffers right after the allocations: sized by M and
\* abc->Kp, nothing stored yet.  tsc_past is the memory word that follows
\* the transition buffer.
Create_Raw(M, abc, g) ==
  [ M           |-> g,
    abc         |-> UNINIT,
    mode        |-> g,
    tsc         |-> [i \in 1..TscSize(M)      |-> g],
    tsc_past    |-> g,
    msc         |-> [i \in 1..MscSize(M, abc) |-> g],
    isc         |-> [i \in 1..IscSize(M, abc) |-> g],
    xsc         |-> [i \in 1..8               |-> g],
    bsc         |-> [i \in 1..(M + 1)         |-> g],
    esc         |-> [i \in 1..(M + 1)         |-> g],
    xt          |-> [i \in 1..8               |-> g],
    begin       |-> [i \in 1..(M + 1)         |-> g],
    end         |-> [i \in 1..(M + 1)         |-> g],
    do_lcorrect |-> g,
    lscore      |-> g,
    h2_mode     |-> g,
    hmm         |-> UNINIT,
    bg          |-> UNINIT ]

\* Lines 76-84: the <<channel, node>> cells Create stores p7_IMPOSSIBLE in.
Create_TscStores ==
  {<<x, 0>> : x \in {p7_TMM, p7_TMI, p7_TMD, p7_TIM, p7_TII, p7_TDM, p7_TDD}}
    \cup {<<p7_TDM, 1>>, <<p7_TDD, 1>>}

\* Lines 85-94 for the match table, the gap row left out.
Create_MscStores_NoGap(M, abc) ==
  {<<x, 0>> : x \in 0..(abc.Kp - 1)}
    \cup {<<esl_abc_XGetMissing(abc), k>> : k \in 0..M}

\* Lines 85-94 for the match table: msc[x][0] for every symbol, and
\* esl_vec_ISet(gm->msc[x], M+1, ..) for the gap and the missing-data symbol.
Create_MscStores(M, abc) ==
  {<<x, 0>> : x \in 0..(abc.Kp - 1)}
    \cup {<<esl_abc_XGetGap(abc), k>> : k \in 0..M}
    \cup {<<esl_abc_XGetMissing(abc), k>> : k \in 0..M}

\* Lines 85-94 for the insert table: isc[x][0] for every symbol, and
\* esl_vec_ISet(gm->isc[x], M, ..) for the gap and the missing-data symbol.
Create_IscStores(M, abc) ==
  {<<x, 0>> : x \in 0..(abc.Kp - 1)}
    \cup {<<esl_abc_XGetGap(abc), k>> : k \in 0..(M - 1)}
    \cup {<<esl_abc_XGetMissing(abc), k>> : k \in 0..(M - 1)}

\* The stores of lines 76-94.  A store to tsc[0] + 7*M lands in the word
\* that follows the transition buffer.
Create_Sentinels(p, M, abc) ==
  LET ta == {TscAddr(M, w[1], w[2]) : w \in Create_TscStores}
      ma == {MscAddr(M, w[1], w[2]) : w \in Create_MscStores(M, abc)}
      ia == {IscAddr(M, w[1], w[2]) : w \in Create_IscStores(M, abc)}
  IN  [p EXCEPT
         !.tsc = [i \in 1..TscSize(M) |-> IF (i - 1) \in ta THEN p7_IMPOSSIBLE ELSE p.tsc[i]],
         !.tsc_past = IF TscSize(M) \in ta THEN p7_IMPOSSIBLE ELSE p.tsc_past,
         !.msc = [i \in 1..MscSize(M, abc) |-> IF (i - 1) \in ma THEN p7_IMPOSSIBLE ELSE p.msc[i]],
         !.isc = [i \in 1..IscSize(M, abc) |-> IF (i - 1) \in ia THEN p7_IMPOSSIBLE ELSE p.isc[i]]]

\* Lines 98-105.
Create_Scalars(p, M, abc) ==
  [p EXCEPT !.mode = p7_NO_MODE, !.M = M, !.abc = abc, !.hmm = NULL, !.bg = NULL,
            !.do_lcorrect = C_FALSE, !.lscore = 0, !.h2_mode = C_FALSE]

\* The profile returned on success.
Create_Profile(M, abc, g) ==
  Create_Scalars(Create_Sentinels(Create_Raw(M, abc, g), M, abc), M, abc)

\* The stores of Create that fall outside the buffer they are meant for.
Create_OutOfBounds(M) ==
  {w \in Create_TscStores : TscAddr(M, w[1], w[2]) >= TscSize(M)}

(***************************************************************************)
(* SpecCreate: construction, with any one allocation failing, and          *)
(* destruction.                                                            *)
(***************************************************************************)
FreshHeap(h) == [h EXCEPT !.log = <<>>, !.faults = {}]

\* p7_profile_Create(M, abc); the failAt-th allocation fails (0: none does).
Create ==
  \E M \in 1..MaxM, abc \in Alphabets, failAt \in 0..NAlloc, g \in Garbage :
    /\ gm = NoProfile
    /\ LET h == Create_Allocs(FreshHeap(heap), 1, failAt)
       IN  IF failAt = 0
             THEN /\ gm' = Create_Profile(M, abc, g)
                  /\ heap' = [h EXCEPT !.faults =
                                IF Create_OutOfBounds(M) = {} THEN @
                                ELSE @ \cup {"store outside the transition buffer"}]
                  /\ ret' = [op |-> "Create", M |-> M, abc |-> abc, failAt |-> failAt,
                             res |-> "gm"]
             ELSE \* ERROR: p7_profile_Destroy(gm); return NULL;
                  /\ gm' = NoProfile
                  /\ heap' = p7_profile_Destroy(h)
                  /\ ret' = [op |-> "Create", M |-> M, abc |-> abc, failAt |-> failAt,
                             res |-> NULL]
    /\ UNCHANGED <<rmx, chan, mpi, thr>>

\* p7_profile_Destroy(gm) of a profile Create returned.
Destroy ==
  /\ gm # NoProfile
  /\ heap' = p7_profile_Destroy(FreshHeap(heap))
  /\ gm' = NoProfile
  /\ ret' = [op |-> "Destroy"]
  /\ UNCHANGED <<rmx, chan, mpi, thr>>

InitCreate ==
  /\ gm = NoProfile
  /\ ret = NoRet
  /\ heap = NoHeap
  /\ rmx = NoRefmx
  /\ chan = <<>>
  /\ mpi = NoMpi
  /\ thr = <<>>

NextCreate == Create \/ Destroy

SpecCreate == InitCreate /\ [][NextCreate]_vars

(***************************************************************************)
(* p7_profile_Validate.                                                    *)
(*                                                                         *)
(* A float is modelled by an integer count of quarters (FloatOne is 1.0);  *)
(* sums and products of such values are exact in float arithmetic.         *)
(***************************************************************************)
FloatOne == 4

Abs(x) == IF x < 0 THEN -x ELSE x

\* esl_FCompare(a, b, tol): eslOK when a and b are equal within tol.
esl_FCompare(a, b, tol) == IF Abs(a - b) <= tol THEN "eslOK" ELSE "eslFAIL"

\* The first loop with k starting at 0 instead of 1.
RECURSIVE Validate_Sum_From0(_, _, _)
Validate_Sum_From0(p, k, sum) ==
  IF k > p.M THEN sum + p.begin[1] * (p.M + 1)
  ELSE Validate_Sum_From0(p, k + 1, sum + p.begin[k + 1] * (p.M - k + 1))

\* for (sum = 0., k = 1; k <= gm->M; k++) sum += gm->begin[k] * (gm->M - k + 1);
RECURSIVE Validate_Sum(_, _, _)
Validate_Sum(p, k, sum) ==
  IF k > p.M THEN sum
  ELSE Validate_Sum(p, k + 1, sum + p.begin[k + 1] * (p.M - k + 1))

\* for (k = 1; k <= gm->M; k++) if (gm->end[k] != 1.0) return eslFAIL;
RECURSIVE Validate_End(_, _)
Validate_End(p, k) ==
  IF k > p.M THEN "eslOK"
  ELSE IF p.end[k + 1] # FloatOne THEN "eslFAIL"
  ELSE Validate_End(p, k + 1)

\* for (i = 0; i < 4; i++)
\*   if (esl_FCompare(gm->xt[i][p7_MOVE] + gm->xt[i][p7_LOOP], 1.0, tol) != eslOK) return eslFAIL;
RECURSIVE Validate_Xt(_, _, _)
Validate_Xt(p, i, tol) ==
  IF ~(i < 4) THEN "eslOK"
  ELSE IF esl_FCompare(p.xt[XAddr(i, p7_MOVE) + 1] + p.xt[XAddr(i, p7_LOOP) + 1],
                       FloatOne, tol) # "eslOK" THEN "eslFAIL"
  ELSE Validate_Xt(p, i + 1, tol)

p7_profile_Validate(p, tol) ==
  IF esl_FCompare(Validate_Sum(p, 1, 0), FloatOne, tol) # "eslOK" THEN "eslFAIL"
  ELSE IF Validate_End(p, 1) # "eslOK" THEN "eslFAIL"
  ELSE IF Validate_Xt(p, 0, tol) # "eslOK" THEN "eslFAIL"
  ELSE "eslOK"

(***************************************************************************)
(* SpecValidate: validation of profiles whose implicit probability model   *)
(* is drawn from small sets of values.                                     *)
(***************************************************************************)
MaxValidateM == 2

BeginValues == {0, 1, 4}

EndValues == {3, 4}

\* <<xt[i][MOVE], xt[i][LOOP]>>
XtRows == {<<2, 2>>, <<1, 2>>, <<0, 1>>}

Tolerances == {0, 1}

\* The profile with begin b, end e and special rows x.
ValidateProfile(M, seed, b, e, x) ==
  [PatternProfile(M, [K |-> 1, Kp |-> 4], seed) EXCEPT
     !.begin = b, !.end = e,
     !.xt = [i \in 1..8 |-> x[((i - 1) \div 2) + 1][((i - 1) % 2) + 1]]]

InitValidate ==
  /\ \E M \in 1..MaxValidateM, seed \in {0, 1000} :
       \E b \in [1..(M + 1) -> BeginValues], e \in [1..(M + 1) -> EndValues],
          x \in [1..4 -> XtRows] :
         gm = ValidateProfile(M, seed, b, e, x)
  /\ ret = NoRet
  /\ heap = NoHeap
  /\ rmx = NoRefmx
  /\ chan = <<>>
  /\ mpi = NoMpi
  /\ thr = <<>>

Validate ==
  \E tol \in Tolerances :
    /\ ret' = [op |-> "Validate", tol |-> tol, res |-> p7_profile_Validate(gm, tol)]
    /\ UNCHANGED <<rmx, gm, heap, chan, mpi, thr>>

NextValidate == Validate

SpecValidate == InitValidate /\ [][NextValidate]_vars

(***************************************************************************)
(* p7_profile_MPISend and p7_profile_MPIRecv.                              *)
(*                                                                         *)
(* chan is the FIFO of messages from the master to the worker.  A message  *)
(* is its datatype, its element count and its elements; src names the      *)
(* send buffer it was read from (<<field, offset>>).                       *)
(*                                                                         *)
(* mpi holds the master's record of the profiles it has sent (sent, eod)   *)
(* and the worker: its alphabet and background model, the profiles stored  *)
(* in *ret_gm (got), the statuses returned (st), the receives of its last  *)
(* call (log), the number of profiles it created, and whether it runs.     *)
(***************************************************************************)
MaxSend == 2

ScalarFields == {"M", "mode", "do_lcorrect", "lscore", "h2_mode"}

\* The MPI_Send calls of lines 334-354 with the last two exchanged.
MPISend_Plan_LscoreLast(p) ==
  << <<"M",           0, 1,                   "MPI_INT">>,
     <<"mode",        0, 1,                   "MPI_INT">>,
     <<"tsc",         0, 7 * p.M,             "MPI_INT">>,
     <<"msc",         0, (p.M + 1) * p.abc.Kp, "MPI_INT">>,
     <<"isc",         0, p.M * p.abc.Kp,      "MPI_INT">>,
     <<"xsc", XAddr(0, 0), 2,                 "MPI_INT">>,
     <<"xsc", XAddr(1, 0), 2,                 "MPI_INT">>,
     <<"xsc", XAddr(2, 0), 2,                 "MPI_INT">>,
     <<"xsc", XAddr(3, 0), 2,                 "MPI_INT">>,
     <<"bsc",         0, p.M + 1,             "MPI_INT">>,
     <<"esc",         0, p.M + 1,             "MPI_INT">>,
     <<"xt",  XAddr(0, 0), 2,                 "MPI_FLOAT">>,
     <<"xt",  XAddr(1, 0), 2,                 "MPI_FLOAT">>,
     <<"xt",  XAddr(2, 0), 2,                 "MPI_FLOAT">>,
     <<"xt",  XAddr(3, 0), 2,                 "MPI_FLOAT">>,
     <<"begin",       0, p.M + 1,             "MPI_FLOAT">>,
     <<"end",         0, p.M + 1,             "MPI_FLOAT">>,
     <<"do_lcorrect", 0, 1,                   "MPI_INT">>,
     <<"h2_mode",     0, 1,                   "MPI_INT">>,
     <<"lscore",      0, 1,                   "MPI_FLOAT">> >>

\* The MPI_Send calls of lines 334-354, in program order:
\* <<field, offset of the buffer in it, count, datatype>>.
MPISend_Plan(p) ==
  << <<"M",           0, 1,                   "MPI_INT">>,
     <<"mode",        0, 1,                   "MPI_INT">>,
     <<"tsc",         0, 7 * p.M,             "MPI_INT">>,
     <<"msc",         0, (p.M + 1) * p.abc.Kp, "MPI_INT">>,
     <<"isc",         0, p.M * p.abc.Kp,      "MPI_INT">>,
     <<"xsc", XAddr(0, 0), 2,                 "MPI_INT">>,
     <<"xsc", XAddr(1, 0), 2,                 "MPI_INT">>,
     <<"xsc", XAddr(2, 0), 2,                 "MPI_INT">>,
     <<"xsc", XAddr(3, 0), 2,                 "MPI_INT">>,
     <<"bsc",         0, p.M + 1,             "MPI_INT">>,
     <<"esc",         0, p.M + 1,             "MPI_INT">>,
     <<"xt",  XAddr(0, 0), 2,                 "MPI_FLOAT">>,
     <<"xt",  XAddr(1, 0), 2,                 "MPI_FLOAT">>,
     <<"xt",  XAddr(2, 0), 2,                 "MPI_FLOAT">>,
     <<"xt",  XAddr(3, 0), 2,                 "MPI_FLOAT">>,
     <<"begin",       0, p.M + 1,             "MPI_FLOAT">>,
     <<"end",         0, p.M + 1,             "MPI_FLOAT">>,
     <<"do_lcorrect", 0, 1,                   "MPI_INT">>,
     <<"lscore",      0, 1,                   "MPI_FLOAT">>,
     <<"h2_mode",     0, 1,                   "MPI_INT">> >>

\* The MPI_Recv calls of lines 378-396 with bsc and esc exchanged.
MPIRecv_Plan_EscFirst(M, abc) ==
  << <<"mode",        0, 1,                   "MPI_INT">>,
     <<"tsc",         0, 7 * M,               "MPI_INT">>,
     <<"msc",         0, (M + 1) * abc.Kp,    "MPI_INT">>,
     <<"isc",         0, M * abc.Kp,          "MPI_INT">>,
     <<"xsc", XAddr(0, 0), 2,                 "MPI_INT">>,
     <<"xsc", XAddr(1, 0), 2,                 "MPI_INT">>,
     <<"xsc", XAddr(2, 0), 2,                 "MPI_INT">>,
     <<"xsc", XAddr(3, 0), 2,                 "MPI_INT">>,
     <<"esc",         0, M + 1,               "MPI_INT">>,
     <<"bsc",         0, M + 1,               "MPI_INT">>,
     <<"xt",  XAddr(0, 0), 2,                 "MPI_FLOAT">>,
     <<"xt",  XAddr(1, 0), 2,                 "MPI_FLOAT">>,
     <<"xt",  XAddr(2, 0), 2,                 "MPI_FLOAT">>,
     <<"xt",  XAddr(3, 0), 2,                 "MPI_FLOAT">>,
     <<"begin",       0, M + 1,               "MPI_FLOAT">>,
     <<"end",         0, M + 1,               "MPI_FLOAT">>,
     <<"do_lcorrect", 0, 1,                   "MPI_INT">>,
     <<"lscore",      0, 1,                   "MPI_FLOAT">>,
     <<"h2_mode",     0, 1,                   "MPI_INT">> >>

\* The MPI_Recv calls of lines 378-396, in program order (the receive of M,
\* line 374, comes before them).
MPIRecv_Plan(M, abc) ==
  << <<"mode",        0, 1,                   "MPI_INT">>,
     <<"tsc",         0, 7 * M,               "MPI_INT">>,
     <<"msc",         0, (M + 1) * abc.Kp,    "MPI_INT">>,
     <<"isc",         0, M * abc.Kp,          "MPI_INT">>,
     <<"xsc", XAddr(0, 0), 2,                 "MPI_INT">>,
     <<"xsc", XAddr(1, 0), 2,                 "MPI_INT">>,
     <<"xsc", XAddr(2, 0), 2,                 "MPI_INT">>,
     <<"xsc", XAddr(3, 0), 2,                 "MPI_INT">>,
     <<"bsc",         0, M + 1,               "MPI_INT">>,
     <<"esc",         0, M + 1,               "MPI_INT">>,
     <<"xt",  XAddr(0, 0), 2,                 "MPI_FLOAT">>,
     <<"xt",  XAddr(1, 0), 2,                 "MPI_FLOAT">>,
     <<"xt",  XAddr(2, 0), 2,                 "MPI_FLOAT">>,
     <<"xt",  XAddr(3, 0), 2,                 "MPI_FLOAT">>,
     <<"begin",       0, M + 1,               "MPI_FLOAT">>,
     <<"end",         0, M + 1,               "MPI_FLOAT">>,
     <<"do_lcorrect", 0, 1,                   "MPI_INT">>,
     <<"lscore",      0, 1,                   "MPI_FLOAT">>,
     <<"h2_mode",     0, 1,                   "MPI_INT">> >>

\* The n elements at offset off of field f of profile p.
Slice(p, f, off, n) ==
  IF f \in ScalarFields THEN <<p[f]>> ELSE SubSeq(p[f], off + 1, off + n)

\* Profile p with data stored at offset off of field f.
Store(p, f, off, data) ==
  IF f \in ScalarFields
    THEN [p EXCEPT ![f] = data[1]]
    ELSE [p EXCEPT ![f] = [i \in DOMAIN @ |->
                             IF i > off /\ i <= off + Len(data) THEN data[i - off] ELSE @[i]]]

\* MPI_Send(buf, count, datatype, dest, 0, MPI_COMM_WORLD)
MPI_Send(p, e) == [ty |-> e[4], n |-> e[3], data |-> Slice(p, e[1], e[2], e[3]), src |-> <<e[1], e[2]>>]

\* The message of MPISend(NULL) with 0 for the sentinel.
MPISend_EOD_Zero == [ty |-> "MPI_INT", n |-> 1, data |-> <<0>>, src |-> <<"eod", 0>>]

\* int eod = -1; MPI_Send(&eod, 1, MPI_INT, dest, 0, MPI_COMM_WORLD);
MPISend_EOD == [ty |-> "MPI_INT", n |-> 1, data |-> <<-1>>, src |-> <<"eod", 0>>]

\* The messages p7_profile_MPISend(gm, dest) sends, in order.
p7_profile_MPISend(p) ==
  IF p = NoProfile THEN <<MPISend_EOD>>
  ELSE [i \in 1..Len(MPISend_Plan(p)) |-> MPI_Send(p, MPISend_Plan(p)[i])]

\* MPI_Recv(buf, count, datatype, 0, 0, MPI_COMM_WORLD, &mpistatus) by a call
\* in state r = [gm, chan, log, err]: the message at the head of the channel
\* is stored at buf.  A message of another datatype, or of more elements than
\* count (MPI_ERR_TRUNCATE), is an error, fatal under MPI's default handler.
MPI_Recv(r, e) ==
  LET m == Head(r.chan)
  IN  IF r.err # "" THEN r
      ELSE IF m.ty # e[4] THEN [r EXCEPT !.err = "datatype mismatch"]
      ELSE IF m.n > e[3] THEN [r EXCEPT !.err = "MPI_ERR_TRUNCATE"]
      ELSE [gm   |-> Store(r.gm, e[1], e[2], m.data),
            chan |-> Tail(r.chan),
            log  |-> Append(r.log, [into |-> <<e[1], e[2]>>, ty |-> e[4], n |-> e[3],
                                    src |-> m.src, got |-> m.n]),
            err  |-> ""]

RECURSIVE MPIRecv_Body(_, _, _)
MPIRecv_Body(r, plan, i) ==
  IF i > Len(plan) THEN r ELSE MPIRecv_Body(MPI_Recv(r, plan[i]), plan, i + 1)

\* Lines 398-402: gm->abc = abc; gm->hmm = NULL; gm->bg = bg;
MPIRecv_Finish(p, abc, bg) == [p EXCEPT !.abc = abc, !.hmm = NULL, !.bg = bg]

\* The profiles the master sends: one per model length.
SendProfiles == {PatternProfile(M, [K |-> 2, Kp |-> 5], 1000 * M) : M \in 1..MaxM}

(***************************************************************************)
(* SpecMPI: the master sends up to MaxSend profiles and then the           *)
(* end-of-data signal; the worker receives.                                *)
(***************************************************************************)
InitMPI ==
  /\ gm = NoProfile
  /\ ret = NoRet
  /\ heap = NoHeap
  /\ rmx = NoRefmx
  /\ chan = <<>>
  /\ \E abc \in Alphabets : mpi = [NoMpi EXCEPT !.abc = abc]
  /\ thr = <<>>

\* p7_profile_MPISend(gm, dest), gm not NULL
MPISend ==
  \E p \in SendProfiles :
    /\ ~mpi.eod
    /\ Len(mpi.sent) < MaxSend
    /\ chan' = chan \o p7_profile_MPISend(p)
    /\ mpi' = [mpi EXCEPT !.sent = Append(@, p)]
    /\ ret' = [op |-> "MPISend", msgs |-> p7_profile_MPISend(p), res |-> "eslOK"]
    /\ UNCHANGED <<rmx, gm, heap, thr>>

\* p7_profile_MPISend(NULL, dest)
MPISendEOD ==
  /\ ~mpi.eod
  /\ chan' = chan \o p7_profile_MPISend(NoProfile)
  /\ mpi' = [mpi EXCEPT !.eod = TRUE]
  /\ ret' = [op |-> "MPISendEOD", msgs |-> p7_profile_MPISend(NoProfile), res |-> "eslOK"]
  /\ UNCHANGED <<rmx, gm, heap, thr>>

\* The number of messages the call that starts with the head of the channel
\* waits for: every MPI_Recv blocks until its message is there.
MPIRecv_Needs(c) == IF Head(c).data[1] = -1 THEN 1 ELSE 1 + Len(MPIRecv_Plan(0, mpi.abc))

\* p7_profile_MPIRecv(abc, bg, &gm) on the worker, called until it returns
\* eslEOD.  p7_profile_Create may return NULL (created = FALSE); the call
\* does not test for it and stores through the null pointer.
MPIRecv ==
  /\ mpi.state = "run"
  /\ chan # <<>>
  /\ Len(chan) >= MPIRecv_Needs(chan)
  /\ LET M == Head(chan).data[1]
     IN  IF M = -1
           THEN /\ chan' = Tail(chan)
                /\ mpi' = [mpi EXCEPT !.st = Append(@, "eslEOD"), !.state = "done",
                                      !.log = <<[into |-> <<"M", 0>>, ty |-> "MPI_INT", n |-> 1,
                                                 src |-> Head(chan).src, got |-> Head(chan).n]>>]
                /\ ret' = [op |-> "MPIRecv", res |-> "eslEOD"]
           ELSE \E created \in BOOLEAN, g \in Garbage :
                  IF ~created
                    THEN /\ chan' = Tail(chan)
                         /\ mpi' = [mpi EXCEPT !.state = "crashed"]
                         /\ ret' = [op |-> "MPIRecv", res |-> "SIGSEGV"]
                    ELSE LET r0 == [gm   |-> Create_Profile(M, mpi.abc, g),
                                    chan |-> Tail(chan),
                                    log  |-> <<[into |-> <<"M", 0>>, ty |-> "MPI_INT", n |-> 1,
                                                src |-> Head(chan).src, got |-> Head(chan).n]>>,
                                    err  |-> ""]
                             r  == MPIRecv_Body(r0, MPIRecv_Plan(M, mpi.abc), 1)
                         IN  IF r.err # ""
                               THEN /\ chan' = r.chan
                                    /\ mpi' = [mpi EXCEPT !.state = "aborted", !.log = r.log,
                                                          !.created = @ + 1]
                                    /\ ret' = [op |-> "MPIRecv", res |-> r.err]
                               ELSE /\ chan' = r.chan
                                    /\ mpi' = [mpi EXCEPT
                                                 !.got = Append(@, MPIRecv_Finish(r.gm, mpi.abc, mpi.bg)),
                                                 !.st = Append(@, "eslOK"),
                                                 !.log = r.log,
                                                 !.created = @ + 1]
                                    /\ ret' = [op |-> "MPIRecv", res |-> "eslOK"]
  /\ UNCHANGED <<rmx, gm, heap, thr>>

NextMPI == MPISend \/ MPISendEOD \/ MPIRecv

SpecMPI == InitMPI /\ [][NextMPI]_vars

(***************************************************************************)
(* SpecShared: threads calling GetT, Validate and MPISend on one shared    *)
(* profile, interleaved at the level of their loads from the profile.      *)
(*                                                                         *)
(* thr[t] is thread t's call: the operation, its arguments, the position   *)
(* in it (pc), the loop index k, Validate's local sum and, once the call   *)
(* has returned (pc = "done"), its result.                                 *)
(***************************************************************************)
NThreads == 2

Idle == [pc |-> "idle", op |-> "", a |-> <<>>, k |-> 0, sum |-> 0,
         res |-> [status |-> "", tsc |-> 0]]

\* The lookups the threads make: <<st1, k1, st2, k2>>.
SharedQueries == {<<"M", 1, "D", 1>>, <<"B", 0, "M", 1>>, <<"D", 1, "I", 1>>}

\* sum += term, with the sum kept in the profile instead of a local.
Validate_Accumulate_InProfile(st, term) ==
  [gm |-> [st.gm EXCEPT !.lscore = @ + term], sum |-> st.gm.lscore + term]

\* sum += gm->begin[k] * (gm->M - k + 1): the local sum changes, the profile
\* does not.
Validate_Accumulate(st, term) == [gm |-> st.gm, sum |-> st.sum + term]

Returned(t, status, tsc) ==
  [thr EXCEPT ![t].pc = "done", ![t].res = [status |-> status, tsc |-> tsc]]

\* A thread calls p7_profile_GetT; the call is one load from the profile.
SharedGetT(t) ==
  /\ thr[t].pc = "idle"
  /\ \E q \in SharedQueries :
       LET r == p7_profile_GetT(gm, q[1], q[2], q[3], q[4])
       IN  thr' = [thr EXCEPT ![t] = [Idle EXCEPT !.pc = "done", !.op = "GetT", !.a = q,
                                                  !.res = r]]
  /\ UNCHANGED <<rmx, gm, ret, heap, chan, mpi>>

\* A thread calls p7_profile_MPISend(gm, dest).
SharedMPISend(t) ==
  /\ thr[t].pc = "idle"
  /\ chan = <<>>
  /\ chan' = p7_profile_MPISend(gm)
  /\ thr' = [thr EXCEPT ![t] = [Idle EXCEPT !.pc = "done", !.op = "MPISend",
                                            !.res = [status |-> "eslOK", tsc |-> 0]]]
  /\ UNCHANGED <<rmx, gm, ret, heap, mpi>>

\* A thread enters p7_profile_Validate(gm, tol): sum = 0., k = 1.
SharedValidate(t) ==
  /\ thr[t].pc = "idle"
  /\ \E tol \in Tolerances :
       thr' = [thr EXCEPT ![t] = [Idle EXCEPT !.pc = "begin", !.op = "Validate",
                                              !.a = <<tol>>, !.k = 1]]
  /\ UNCHANGED <<rmx, gm, ret, heap, chan, mpi>>

\* One turn of the first loop, or the test that follows it.
ValidateBegin(t) ==
  /\ thr[t].pc = "begin"
  /\ LET k == thr[t].k
     IN  IF k <= gm.M
           THEN LET st == Validate_Accumulate([gm |-> gm, sum |-> thr[t].sum],
                                              gm.begin[k + 1] * (gm.M - k + 1))
                IN  /\ gm' = st.gm
                    /\ thr' = [thr EXCEPT ![t].sum = st.sum, ![t].k = k + 1]
           ELSE /\ gm' = gm
                /\ thr' = IF esl_FCompare(thr[t].sum, FloatOne, thr[t].a[1]) # "eslOK"
                            THEN Returned(t, "eslFAIL", 0)
                            ELSE [thr EXCEPT ![t].pc = "end", ![t].k = 1]
  /\ UNCHANGED <<rmx, ret, heap, chan, mpi>>

\* One turn of the second loop.
ValidateEnd(t) ==
  /\ thr[t].pc = "end"
  /\ LET k == thr[t].k
     IN  thr' = IF k <= gm.M
                  THEN IF gm.end[k + 1] # FloatOne
                         THEN Returned(t, "eslFAIL", 0)
                         ELSE [thr EXCEPT ![t].k = k + 1]
                  ELSE [thr EXCEPT ![t].pc = "xt", ![t].k = 0]
  /\ UNCHANGED <<rmx, gm, ret, heap, chan, mpi>>

\* One turn of the third loop, or the return that follows it.
ValidateXt(t) ==
  /\ thr[t].pc = "xt"
  /\ LET i == thr[t].k
     IN  thr' = IF i < 4
                  THEN IF esl_FCompare(gm.xt[XAddr(i, p7_MOVE) + 1] + gm.xt[XAddr(i, p7_LOOP) + 1],
                                       FloatOne, thr[t].a[1]) # "eslOK"
                         THEN Returned(t, "eslFAIL", 0)
                         ELSE [thr EXCEPT ![t].k = i + 1]
                  ELSE Returned(t, "eslOK", 0)
  /\ UNCHANGED <<rmx, gm, ret, heap, chan, mpi>>

\* The caller has its result and is ready for the next call.
SharedReturn(t) ==
  /\ thr[t].pc = "done"
  /\ thr' = [thr EXCEPT ![t] = Idle]
  /\ chan' = IF thr[t].op = "MPISend" THEN <<>> ELSE chan
  /\ UNCHANGED <<rmx, gm, ret, heap, mpi>>

InitShared ==
  /\ \E M \in 1..MaxValidateM :
       \E b \in {[k \in 1..(M + 1) |-> 1], [k \in 1..(M + 1) |-> IF k = M + 1 THEN 4 ELSE 0]},
          e \in {[k \in 1..(M + 1) |-> 4], [k \in 1..(M + 1) |-> IF k = M + 1 THEN 3 ELSE 4]},
          x \in {[i \in 1..4 |-> <<2, 2>>], [i \in 1..4 |-> IF i = 4 THEN <<1, 2>> ELSE <<2, 2>>]} :
         gm = ValidateProfile(M, 0, b, e, x)
  /\ ret = NoRet
  /\ heap = NoHeap
  /\ rmx = NoRefmx
  /\ chan = <<>>
  /\ mpi = NoMpi
  /\ thr = [t \in 1..NThreads |-> Idle]

NextShared ==
  \E t \in 1..NThreads :
    \/ SharedGetT(t)
    \/ SharedMPISend(t)
    \/ SharedValidate(t)
    \/ ValidateBegin(t)
    \/ ValidateEnd(t)
    \/ ValidateXt(t)
    \/ SharedReturn(t)

SpecShared == InitShared /\ [][NextShared]_vars

(***************************************************************************)
(* The reference DP matrix P7_REFMX (src/p7_refmx.h).  The header gives    *)
(* the object, its documented field relations, the access macros and the   *)
(* row layout; the bodies of p7_refmx_Create, p7_refmx_GrowTo,             *)
(* p7_refmx_Reuse and p7_refmx_Destroy (p7_refmx.c) and of the DP          *)
(* algorithms are modelled from the design description.                    *)
(*                                                                         *)
(* dp_mem is the identity of the backing buffer (a new identity on every   *)
(* reallocation), cells its contents (offset o at index o+1), and dp[i] a  *)
(* pointer [mem, off]: offset off into buffer mem.                         *)
(***************************************************************************)
MaxRefM == 2
MaxRefL == 2

p7R_NSCELLS == 6
p7R_ML == 0
p7R_MG == 1
p7R_IL == 2
p7R_IG == 3
p7R_DL == 4
p7R_DG == 5

p7R_NXCELLS == 9
p7R_E == 0
p7R_N == 1
p7R_J == 2
p7R_B == 3
p7R_L == 4
p7R_G == 5
p7R_C == 6
p7R_JJ == 7
p7R_CC == 8

p7R_UNSET == 0
p7R_FORWARD == 1
p7R_BACKWARD == 2
p7R_DECODING == 3
p7R_ALIGNMENT == 4
p7R_VITERBI == 5

\* Offset within row dp[i] of main state s at node k: P7R_MX(rmx,i,k,s).
P7R_MX(k, s) == k * p7R_NSCELLS + s

\* Special states placed after node M-1.
P7R_XMX_AfterM(M, s) == M * p7R_NSCELLS + s

\* Offset within row dp[i] of special state s, for model length M: P7R_XMX(rmx,i,s).
P7R_XMX(M, s) == (M + 1) * p7R_NSCELLS + s

\* Floats in one row for a model of length M.
RowWidth(M) == (M + 1) * p7R_NSCELLS + p7R_NXCELLS

\* Row dp[r] is placed at dp_mem + r*allocW.
RowPtr(mem, r, allocW) == [mem |-> mem, off |-> r * allocW]

\* A row pointer that has not been placed.
Unplaced == [mem |-> 0, off |-> 0]

\* Contents of memory that was allocated and never written.
Unwritten == -1

\* A value stored by a DP algorithm.
Computed == 1

Max(a, b) == IF a >= b THEN a ELSE b

PlaceRows(mem, allocR, validR, allocW) ==
  [i \in 1..allocR |-> IF i <= validR THEN RowPtr(mem, i - 1, allocW) ELSE Unplaced]

\* p7_refmx_Create(M, L)
p7_refmx_Create(M, L) ==
  LET W == RowWidth(M)
      R == L + 1
  IN  [ M      |-> 0,
        L      |-> 0,
        dp_mem |-> 1,
        allocN |-> R * W,
        cells  |-> [o \in 1..(R * W) |-> Unwritten],
        dp     |-> PlaceRows(1, R, R, W),
        allocR |-> R,
        allocW |-> W,
        validR |-> R,
        type   |-> p7R_UNSET ]

\* GrowTo is done when the rows are already wide enough and enough of them
\* are placed.
GrowTo_BigEnough(x, W, R) == W <= x.allocW /\ R <= x.validR

\* Cells needed for the requested shape alone.
GrowTo_CellsSized_ByRequest(x, W, R) == R * W

\* Cells needed by the buffer: the shape requested, but never narrower or
\* shorter than the capacity already there.
GrowTo_CellsSized(x, W, R) == Max(x.allocR, R) * Max(x.allocW, W)

\* p7_refmx_GrowTo(rmx, M, L)
p7_refmx_GrowTo(x, M, L) ==
  LET W    == RowWidth(M)
      R    == L + 1
      N    == GrowTo_CellsSized(x, W, R)
      newR == Max(x.allocR, R)
      newW == Max(x.allocW, W)
      moved == N > x.allocN
      mem  == IF moved THEN x.dp_mem + 1 ELSE x.dp_mem
  IN  IF GrowTo_BigEnough(x, W, R)
      THEN x
      ELSE [ x EXCEPT
               !.dp_mem = mem,
               !.allocN = IF moved THEN N ELSE x.allocN,
               !.cells  = IF moved THEN [o \in 1..N |-> Unwritten] ELSE x.cells,
               !.allocR = newR,
               !.allocW = newW,
               !.validR = newR,
               !.dp     = PlaceRows(mem, newR, newR, newW) ]

\* p7_refmx_Reuse(rmx)
p7_refmx_Reuse(x) == [x EXCEPT !.M = 0, !.L = 0, !.type = p7R_UNSET]

\* The cells a DP algorithm stores for a model of length M and a sequence of
\* length L: every P7R_MX(rmx,i,k,s) and every P7R_XMX(rmx,i,s), as offsets
\* into dp_mem.
DP_Stores(x, M, L) ==
  { x.dp[i + 1].off + P7R_MX(k, s) :
      i \in 0..L, k \in 0..M, s \in 0..(p7R_NSCELLS - 1) }
  \cup
  { x.dp[i + 1].off + P7R_XMX(M, s) : i \in 0..L, s \in 0..(p7R_NXCELLS - 1) }

\* p7_ReferenceForward / p7_ReferenceViterbi (and the like): grow the matrix
\* to (M, L), fill rows 0..L and tag the matrix with the algorithm.
ReferenceDP(x, ty, M, L) ==
  LET g == p7_refmx_GrowTo(x, M, L)
      w == DP_Stores(g, M, L)
  IN  [ g EXCEPT
          !.M = M,
          !.L = L,
          !.type = ty,
          !.cells = [o \in 1..g.allocN |-> IF (o - 1) \in w THEN Computed ELSE g.cells[o]] ]

DPTypes == {p7R_FORWARD, p7R_VITERBI}

RefShapes == {<<M, L>> : M \in 1..MaxRefM, L \in 1..MaxRefL}

RefRet(op, M, L, before, after) ==
  [op |-> op, M |-> M, L |-> L, status |-> "eslOK",
   realloc |-> (before.dp_mem # after.dp_mem \/ before.allocR # after.allocR)]

InitRefmx ==
  /\ gm = NoProfile
  /\ ret = NoRet
  /\ heap = NoHeap
  /\ chan = <<>>
  /\ mpi = NoMpi
  /\ thr = <<>>
  /\ rmx = NoRefmx

RefmxCreate ==
  /\ rmx = NoRefmx
  /\ \E sh \in RefShapes :
       /\ rmx' = p7_refmx_Create(sh[1], sh[2])
       /\ ret' = [op |-> "Create", M |-> sh[1], L |-> sh[2], status |-> "eslOK",
                  realloc |-> FALSE]
  /\ UNCHANGED <<gm, heap, chan, mpi, thr>>

RefmxGrowTo ==
  /\ rmx # NoRefmx
  /\ \E sh \in RefShapes :
       /\ rmx' = p7_refmx_GrowTo(rmx, sh[1], sh[2])
       /\ ret' = RefRet("GrowTo", sh[1], sh[2], rmx, rmx')
  /\ UNCHANGED <<gm, heap, chan, mpi, thr>>

RefmxReuse ==
  /\ rmx # NoRefmx
  /\ rmx' = p7_refmx_Reuse(rmx)
  /\ ret' = RefRet("Reuse", 0, 0, rmx, rmx')
  /\ UNCHANGED <<gm, heap, chan, mpi, thr>>

RefmxDP ==
  /\ rmx # NoRefmx
  /\ \E sh \in RefShapes, ty \in DPTypes :
       /\ rmx' = ReferenceDP(rmx, ty, sh[1], sh[2])
       /\ ret' = RefRet("DP", sh[1], sh[2], rmx, rmx')
  /\ UNCHANGED <<gm, heap, chan, mpi, thr>>

\* p7_refmx_Destroy(rmx)
RefmxDestroy ==
  /\ rmx # NoRefmx
  /\ rmx' = NoRefmx
  /\ ret' = [op |-> "Destroy", M |-> 0, L |-> 0, status |-> "void", realloc |-> FALSE]
  /\ UNCHANGED <<gm, heap, chan, mpi, thr>>

NextRefmx == RefmxCreate \/ RefmxGrowTo \/ RefmxReuse \/ RefmxDP \/ RefmxDestroy

SpecRefmx == InitRefmx /\ [][NextRefmx]_vars

(***************************************************************************)
(* Claims about p7_profile_GetT.                                           *)
(***************************************************************************)
\* The legal transition grammar: <<source state type, destination state type>>.
LegalGrammar ==
  { <<"N", "B">>, <<"N", "N">>, <<"B", "M">>,
    <<"M", "M">>, <<"M", "I">>, <<"M", "D">>, <<"M", "E">>,
    <<"D", "M">>, <<"D", "D">>, <<"I", "M">>, <<"I", "I">>,
    <<"E", "C">>, <<"E", "J">>, <<"J", "B">>, <<"J", "J">>,
    <<"C", "T">>, <<"C", "C">> }

\* The cell each legal pair names.  tsc[x][k1] is the cell at tsc[0] + x*M + k1;
\* for x = 6 and k1 = M that is the word following the 7*M cells of the buffer.
StoredScore(p, st1, k1, st2, k2) ==
  LET pair == <<st1, st2>>
      tcell(x) == IF x * p.M + k1 < 7 * p.M THEN p.tsc[x * p.M + k1 + 1] ELSE p.tsc_past
      xcell(row, col) == p.xsc[2 * row + col + 1]
  IN  CASE pair = <<"N", "B">> -> xcell(p7_XTN, p7_MOVE)
        [] pair = <<"N", "N">> -> xcell(p7_XTN, p7_LOOP)
        [] pair = <<"E", "C">> -> xcell(p7_XTE, p7_MOVE)
        [] pair = <<"E", "J">> -> xcell(p7_XTE, p7_LOOP)
        [] pair = <<"J", "B">> -> xcell(p7_XTJ, p7_MOVE)
        [] pair = <<"J", "J">> -> xcell(p7_XTJ, p7_LOOP)
        [] pair = <<"C", "T">> -> xcell(p7_XTC, p7_MOVE)
        [] pair = <<"C", "C">> -> xcell(p7_XTC, p7_LOOP)
        [] pair = <<"B", "M">> -> p.bsc[k2 + 1]
        [] pair = <<"M", "E">> -> p.esc[k1 + 1]
        [] pair = <<"M", "M">> -> tcell(p7_TMM)
        [] pair = <<"M", "I">> -> tcell(p7_TMI)
        [] pair = <<"M", "D">> -> tcell(p7_TMD)
        [] pair = <<"D", "M">> -> tcell(p7_TDM)
        [] pair = <<"D", "D">> -> tcell(p7_TDD)
        [] pair = <<"I", "M">> -> tcell(p7_TIM)
        [] pair = <<"I", "I">> -> tcell(p7_TII)

\* C1 (as claimed): every queried pair outside the legal grammar, whatever
\* the source state type, makes GetT return eslEINVAL with *ret_tsc = 0.
C1_IllegalPairFails ==
  (ret.op = "GetT" /\ <<ret.st1, ret.st2>> \notin LegalGrammar)
    => (ret.res.status = "eslEINVAL" /\ ret.res.tsc = 0)

\* C2: for every pair of the legal grammar GetT returns eslOK and the score
\* stored in the cell the pair names (xsc row and MOVE/LOOP column, bsc[k2],
\* esc[k1], or tsc[channel][k1]).
C2_LegalPairReturnsStored ==
  (ret.op = "GetT" /\ <<ret.st1, ret.st2>> \in LegalGrammar)
    => /\ ret.res.status = "eslOK"
       /\ ret.res.tsc = StoredScore(gm, ret.st1, ret.k1, ret.st2, ret.k2)

\* C2 witness: a B->M lookup whose two node arguments differ has returned
\* eslOK with the begin score of the destination node.
C2_Witness ==
  /\ ret.op = "GetT"
  /\ ret.st1 = "B" /\ ret.st2 = "M" /\ ret.k1 # ret.k2
  /\ ret.res.status = "eslOK"
  /\ ret.res.tsc = gm.bsc[ret.k2 + 1]

(***************************************************************************)
(* Claims about p7_profile_Create and p7_profile_Destroy.                  *)
(***************************************************************************)
Created == ret.op = "Create" /\ ret.res = "gm"

CreateFailed == ret.op = "Create" /\ ret.res = NULL

\* C3 (as claimed): for every M >= 1 the created profile has tsc[TDM][1] and
\* tsc[TDD][1] impossible, each stored in a cell of the transition buffer
\* Create allocated (the 7*M cells at tsc[0]).
C3_D1InsideBuffer ==
  Created =>
    \A x \in {p7_TDM, p7_TDD} :
      /\ x * gm.M + 1 < 7 * gm.M
      /\ gm.tsc[x * gm.M + 1 + 1] = p7_IMPOSSIBLE

\* C4: a created profile has every transition channel impossible at node 0,
\* match and insert emissions impossible at node 0 for every symbol, the
\* whole gap and missing-data rows impossible (match columns 0..M, insert
\* columns 0..M-1), and mode = no-mode, M as requested, hmm = bg = NULL,
\* do_lcorrect false, lscore 0, legacy flag false.
C4_FreshProfile ==
  Created =>
    LET M  == ret.M
        Kp == ret.abc.Kp
    IN  /\ \A x \in 0..6 : gm.tsc[x * M + 1] = p7_IMPOSSIBLE
        /\ \A a \in 0..(Kp - 1) :
              /\ gm.msc[a * (M + 1) + 1] = p7_IMPOSSIBLE
              /\ gm.isc[a * M + 1] = p7_IMPOSSIBLE
        /\ \A a \in {ret.abc.K, Kp - 1} :
              /\ \A k \in 0..M       : gm.msc[a * (M + 1) + k + 1] = p7_IMPOSSIBLE
              /\ \A k \in 0..(M - 1) : gm.isc[a * M + k + 1] = p7_IMPOSSIBLE
        /\ gm.mode = p7_NO_MODE
        /\ gm.M = M
        /\ gm.hmm = NULL /\ gm.bg = NULL
        /\ gm.do_lcorrect = C_FALSE
        /\ gm.lscore = 0
        /\ gm.h2_mode = C_FALSE

\* C4 witness: a profile of two or more nodes has been created from memory
\* that held something other than the impossible score, and a residue's
\* emission at node 1 still holds what malloc returned.
C4_Witness ==
  /\ Created
  /\ gm.M >= 2
  /\ gm.msc[1 + 1] = 77
  /\ gm.msc[esl_abc_XGetGap(gm.abc) * (gm.M + 1) + gm.M + 1] = p7_IMPOSSIBLE

Pos(log, b) == CHOOSE i \in 1..Len(log) : log[i] = b

\* C6: when an allocation of Create fails, Create returns NULL and every
\* block allocated before the failure has been freed exactly once: nothing
\* is live, no block is freed twice, no uninitialised field is read, and a
\* backing buffer is freed before its pointer table.
C6_FailedCreateReleasesAll ==
  CreateFailed =>
    LET done == {AllocPlan[i] : i \in 1..(ret.failAt - 1)}
    IN  /\ gm = NoProfile
        /\ heap.live = {}
        /\ heap.faults = {}
        /\ {heap.log[i] : i \in 1..Len(heap.log)} = done
        /\ Len(heap.log) = Cardinality(done)
        /\ \A t \in {"tsc", "msc", "isc"} :
              BufferOf(t) \in done => Pos(heap.log, BufferOf(t)) < Pos(heap.log, t)

\* C6 witness: the last allocation (the insert-emission buffer) failed after
\* the ten before it succeeded, and all ten have been freed.
C6_Witness ==
  /\ CreateFailed
  /\ ret.failAt = NAlloc
  /\ Len(heap.log) = NAlloc - 1
  /\ heap.log[1] = "tsc0" /\ heap.log[2] = "msc0"

(***************************************************************************)
(* Claims about p7_profile_Validate.                                       *)
(***************************************************************************)
RECURSIVE SumOf(_, _)
SumOf(f, S) ==
  IF S = {} THEN 0
  ELSE LET k == CHOOSE k \in S : TRUE IN f[k] + SumOf(f, S \ {k})

EntryNormalised(p, tol) ==
  LET w == [k \in 1..p.M |-> p.begin[k + 1] * (p.M - k + 1)]
  IN  Abs(SumOf(w, 1..p.M) - FloatOne) <= tol

ExitUnconditional(p) == \A k \in 1..p.M : p.end[k + 1] = FloatOne

SpecialsNormalised(p, tol) ==
  \A i \in 0..3 : Abs(p.xt[2 * i + 1] + p.xt[2 * i + 2] - FloatOne) <= tol

\* C5: Validate returns eslOK if and only if the begin[k]*(M-k+1), k = 1..M,
\* sum to 1.0 within tol, end[k] is exactly 1.0 for every k = 1..M, and every
\* special row's MOVE + LOOP is 1.0 within tol; otherwise eslFAIL.  begin[0],
\* end[0] and the score tables do not enter.
C5_ValidateIff ==
  ret.op = "Validate" =>
    /\ ret.res \in {"eslOK", "eslFAIL"}
    /\ ret.res = "eslOK" <=>
         (/\ EntryNormalised(gm, ret.tol)
          /\ ExitUnconditional(gm)
          /\ SpecialsNormalised(gm, ret.tol))

\* C5 witness: a two-node profile whose begin[0] and end[0] are not valid
\* probabilities of the implicit model has passed validation with a
\* tolerance above zero, its entry sum and one special row being off 1.0 by
\* no more than the tolerance.
C5_Witness ==
  /\ ret.op = "Validate" /\ ret.res = "eslOK" /\ ret.tol = 1
  /\ gm.M = 2
  /\ gm.begin = <<4, 1, 1>>
  /\ gm.end[1] = 3
  /\ gm.xt[1] + gm.xt[2] = 3

(***************************************************************************)
(* Claims about p7_profile_MPISend and p7_profile_MPIRecv.                 *)
(***************************************************************************)
\* The message order of the claim for a profile of M nodes over Kp symbols:
\* <<what, datatype, count>>.
MessageOrder(M, Kp) ==
  << <<"M">>,  <<"mode">>, <<"tsc">>, <<"msc">>, <<"isc">>,
     <<"xsc", 0>>, <<"xsc", 1>>, <<"xsc", 2>>, <<"xsc", 3>>,
     <<"bsc">>, <<"esc">>,
     <<"xt", 0>>, <<"xt", 1>>, <<"xt", 2>>, <<"xt", 3>>,
     <<"begin">>, <<"end">>, <<"do_lcorrect">>, <<"lscore">>, <<"h2_mode">> >>

MessageCount(w, M, Kp) ==
  CASE w[1] \in {"M", "mode", "do_lcorrect", "lscore", "h2_mode"} -> 1
    [] w[1] = "tsc" -> 7 * M
    [] w[1] = "msc" -> (M + 1) * Kp
    [] w[1] = "isc" -> M * Kp
    [] w[1] \in {"xsc", "xt"} -> 2
    [] w[1] \in {"bsc", "esc", "begin", "end"} -> M + 1

MessageType(w) ==
  IF w[1] \in {"xt", "begin", "end", "lscore"} THEN "MPI_FLOAT" ELSE "MPI_INT"

\* The buffer a message of the claim's list is read from or stored at.
MessageBuffer(w) == IF Len(w) = 2 THEN <<w[1], 2 * w[2]>> ELSE <<w[1], 0>>

Claimed(M, Kp) ==
  [i \in 1..Len(MessageOrder(M, Kp)) |->
     LET w == MessageOrder(M, Kp)[i]
     IN  <<MessageBuffer(w), MessageType(w), MessageCount(w, M, Kp)>>]

\* C7: MPISend of a profile emits M, mode, the transition, match and insert
\* blocks, the four xsc rows, bsc, esc, the four xt rows, begin, end,
\* do_lcorrect, lscore, h2_mode, in this order with these counts and types;
\* MPIRecv with an alphabet of the same Kp receives in the same order with
\* the same type and count at every position.
C7_MessageOrder ==
  /\ ret.op = "MPISend" =>
       LET p == mpi.sent[Len(mpi.sent)]
       IN  [i \in 1..Len(ret.msgs) |-> <<ret.msgs[i].src, ret.msgs[i].ty, ret.msgs[i].n>>]
             = Claimed(p.M, p.abc.Kp)
  /\ (/\ ret.op = "MPIRecv"
      /\ ret.res # "eslEOD"
      /\ mpi.state # "crashed"
      /\ mpi.abc.Kp = mpi.sent[mpi.created].abc.Kp) =>
       LET p == mpi.sent[mpi.created]
       IN  /\ ret.res = "eslOK"
           /\ [i \in 1..Len(mpi.log) |-> <<mpi.log[i].into, mpi.log[i].ty, mpi.log[i].n>>]
                = Claimed(p.M, p.abc.Kp)
           /\ \A i \in 1..Len(mpi.log) :
                mpi.log[i].got = mpi.log[i].n /\ mpi.log[i].src = mpi.log[i].into

\* C7 witness: the worker, holding an alphabet of the sender's Kp, has
\* received a two-node profile in twenty messages.
C7_Witness ==
  /\ ret.op = "MPIRecv" /\ ret.res = "eslOK"
  /\ mpi.abc.Kp = mpi.sent[mpi.created].abc.Kp
  /\ mpi.got[Len(mpi.got)].M = 2
  /\ Len(mpi.log) = 20

\* C8: after the master has sent its profiles and then MPISend(NULL), the
\* worker's calls return eslOK once per profile, in the order sent, and then
\* eslEOD.  The sentinel is one message, a single int -1; the call returning
\* eslEOD creates no profile, stores no profile, receives that one message
\* only, and leaves the channel empty.
C8_Shutdown ==
  /\ ret.op = "MPISendEOD" =>
       /\ Len(ret.msgs) = 1
       /\ ret.msgs[1].ty = "MPI_INT" /\ ret.msgs[1].n = 1 /\ ret.msgs[1].data = <<-1>>
  /\ Len(mpi.got) <= Len(mpi.sent)
  /\ \A i \in 1..Len(mpi.got) :
       /\ mpi.got[i].M = mpi.sent[i].M
       /\ mpi.got[i].tsc = mpi.sent[i].tsc
       /\ mpi.got[i].bsc = mpi.sent[i].bsc
  /\ mpi.st = [i \in 1..Len(mpi.got) |-> "eslOK"]
                \o (IF mpi.state = "done" THEN <<"eslEOD">> ELSE <<>>)
  /\ mpi.state = "done" =>
       /\ mpi.eod
       /\ Len(mpi.got) = Len(mpi.sent)
       /\ mpi.created = Len(mpi.sent)
       /\ Len(mpi.log) = 1
       /\ chan = <<>>

\* C8 witness: two profiles of different lengths were sent, then the
\* sentinel, and the worker has returned eslOK, eslOK, eslEOD.
C8_Witness ==
  /\ mpi.state = "done"
  /\ mpi.st = <<"eslOK", "eslOK", "eslEOD">>
  /\ mpi.got[1].M # mpi.got[2].M

\* C9: with the same alphabet on both sides, the profile MPIRecv stores
\* equals the profile sent in M, mode, every transition, match and insert
\* score, xsc, bsc, esc, xt, begin, end, do_lcorrect, lscore and h2_mode (the
\* values received replacing the ones Create stored); its alphabet and
\* background model are the receiver's and its hmm is NULL.
C9_RoundTrip ==
  \A i \in 1..Len(mpi.got) :
    mpi.abc = mpi.sent[i].abc =>
      LET a == mpi.sent[i]
          b == mpi.got[i]
      IN  /\ \A f \in {"M", "mode", "tsc", "msc", "isc", "xsc", "bsc", "esc", "xt",
                       "begin", "end", "do_lcorrect", "lscore", "h2_mode"} : b[f] = a[f]
          /\ b.abc = mpi.abc
          /\ b.bg = mpi.bg
          /\ b.hmm = NULL

\* C9 witness: a one-node profile has gone round with the same alphabet; the
\* cell tsc[TDM][1], which Create set to the impossible score, holds the
\* score that was sent, and the sender's profile had a model and a
\* background of its own.
C9_Witness ==
  /\ Len(mpi.got) >= 1
  /\ mpi.abc = mpi.sent[1].abc
  /\ mpi.got[1].M = 1
  /\ mpi.got[1].tsc[p7_TDM * 1 + 1 + 1] # p7_IMPOSSIBLE
  /\ mpi.sent[1].hmm # NULL
  /\ mpi.sent[1].bg # mpi.bg

(***************************************************************************)
(* Claims about the shared, read-only profile.                             *)
(***************************************************************************)
AloneResult(t) ==
  CASE thr[t].op = "GetT" ->
         p7_profile_GetT(gm, thr[t].a[1], thr[t].a[2], thr[t].a[3], thr[t].a[4])
    [] thr[t].op = "Validate" ->
         [status |-> p7_profile_Validate(gm, thr[t].a[1]), tsc |-> 0]
    [] thr[t].op = "MPISend" -> [status |-> "eslOK", tsc |-> 0]

\* C10: no step of GetT, Validate or MPISend changes the profile, and under
\* every interleaving each call returns the status and value it returns when
\* run alone on the profile.
C10_ReadOnly ==
  /\ [][gm' = gm]_vars
  /\ [](\A t \in 1..NThreads : thr[t].pc = "done" => thr[t].res = AloneResult(t))

\* C10 witness: one thread's Validate has returned eslOK with tolerance 1/4
\* on a two-node profile while another thread is inside the third loop of
\* its own Validate.
C10_Witness ==
  /\ gm.M = 2
  /\ thr[1].pc = "done" /\ thr[1].op = "Validate" /\ thr[1].res.status = "eslOK"
  /\ thr[1].a = <<1>>
  /\ thr[2].pc = "xt" /\ thr[2].k = 2

(***************************************************************************)
(* Claims about the reference DP matrix.                                   *)
(***************************************************************************)
\* Rows 0..L of x are placed in the backing buffer x.dp_mem, each on allocW
\* cells of its own inside the allocN cells of the buffer.
RowsDisjoint(x, L) ==
  /\ \A i \in 0..L :
       /\ x.dp[i + 1].mem = x.dp_mem
       /\ x.dp[i + 1].off >= 0
       /\ x.dp[i + 1].off + x.allocW <= x.allocN
  /\ \A i \in 0..L, j \in 0..L :
       i # j => \/ x.dp[i + 1].off + x.allocW <= x.dp[j + 1].off
                \/ x.dp[j + 1].off + x.allocW <= x.dp[i + 1].off

Capacity(x) == <<x.allocN, x.allocR, x.allocW, x.validR>>

Buffers(x) == <<x.dp_mem, x.cells, x.dp>>

\* The current capacity of x holds the shape (M, L) in both dimensions.
Sufficient(x, M, L) == RowWidth(M) <= x.allocW /\ L + 1 <= x.allocR

\* C11: on one DP matrix, allocN >= allocR*allocW and validR <= allocR always
\* hold; allocN, allocR and allocW never decrease; right after GrowTo(M,L)
\* the rows are at least (M+1)*6 + 9 wide, at least L+1 rows are valid and
\* rows 0..L lie on pairwise disjoint slices of the backing buffer; GrowTo
\* reallocates only when the capacity is insufficient in some dimension; and
\* Reuse sets type = unset and M = L = 0, leaving capacity and buffers as
\* they were.
C11_GrowReuse ==
  /\ [](rmx # NoRefmx =>
          /\ rmx.allocN >= rmx.allocR * rmx.allocW
          /\ rmx.validR <= rmx.allocR)
  /\ [][rmx # NoRefmx /\ rmx' # NoRefmx =>
          /\ rmx'.allocN >= rmx.allocN
          /\ rmx'.allocR >= rmx.allocR
          /\ rmx'.allocW >= rmx.allocW]_vars
  /\ [][ret'.op = "GrowTo" =>
          /\ rmx'.allocW >= (ret'.M + 1) * 6 + 9
          /\ ret'.L + 1 <= rmx'.validR
          /\ RowsDisjoint(rmx', ret'.L)
          /\ Sufficient(rmx, ret'.M, ret'.L) =>
               /\ Capacity(rmx') = Capacity(rmx)
               /\ Buffers(rmx') = Buffers(rmx)]_vars
  /\ [][ret'.op = "Reuse" =>
          /\ rmx'.type = p7R_UNSET
          /\ rmx'.M = 0
          /\ rmx'.L = 0
          /\ Capacity(rmx') = Capacity(rmx)
          /\ Buffers(rmx') = Buffers(rmx)]_vars

\* C11 witness: a matrix that a Forward run has filled is grown by a request
\* wider than its rows but shorter than its row table, and the buffer was
\* reallocated for it.
C11_Witness ==
  /\ rmx # NoRefmx
  /\ ret.op = "GrowTo"
  /\ ret.realloc
  /\ ret.L + 1 < rmx.allocR
  /\ RowWidth(ret.M) = rmx.allocW
  /\ rmx.type = p7R_FORWARD
  /\ rmx.dp_mem > 1

(***************************************************************************)
(* Claims about the layout of the transition table.                        *)
(***************************************************************************)
\* The <<channel, node>> pairs of a profile of M nodes, node 0 included.
TscPairs(M) == {<<x, k>> : x \in p7_TMM..p7_TDD, k \in 0..M}

\* C12 (as claimed): in the table p7_profile_Create builds, every channel has
\* a cell of the allocated transition buffer for every node 1..M, and no two
\* different <<channel, node>> pairs with node in 0..M share a cell, so a
\* store to one entry changes no other entry and no node-0 sentinel.
C12_OwnCells ==
  Created =>
    /\ \A w \in TscPairs(gm.M) :
         w[2] >= 1 => TscAddr(gm.M, w[1], w[2]) < Len(gm.tsc)
    /\ \A v \in TscPairs(gm.M), w \in TscPairs(gm.M) :
         v # w => TscAddr(gm.M, v[1], v[2]) # TscAddr(gm.M, w[1], w[2])

\* C12 (amended): every channel has a cell of the allocated transition
\* buffer for every node 0..M-1, and no two different <<channel, node>> pairs
\* with node in 0..M-1 share a cell.
C12_OwnCellsBelowM ==
  Created =>
    /\ \A w \in TscPairs(gm.M - 1) :
         /\ TscAddr(gm.M, w[1], w[2]) >= 0
         /\ TscAddr(gm.M, w[1], w[2]) < Len(gm.tsc)
    /\ \A v \in TscPairs(gm.M - 1), w \in TscPairs(gm.M - 1) :
         v # w => TscAddr(gm.M, v[1], v[2]) # TscAddr(gm.M, w[1], w[2])

\* C12 witness: a created profile of at least two nodes, where the entry of
\* the last channel at node M-1 is the last cell of the buffer.
C12_Witness ==
  /\ Created
  /\ gm.M >= 2
  /\ TscAddr(gm.M, p7_TDD, gm.M - 1) = Len(gm.tsc) - 1

(***************************************************************************)
(* Claims about cell addressing in the reference DP matrix.                *)
(***************************************************************************)
MainCells(M) == {<<k, s>> : k \in 0..M, s \in {p7R_ML, p7R_MG, p7R_IL, p7R_IG, p7R_DL, p7R_DG}}

SpecialOrder == <<p7R_E, p7R_N, p7R_J, p7R_B, p7R_L, p7R_G, p7R_C, p7R_JJ, p7R_CC>>

\* C13: for a matrix of current model length M, the offsets P7R_MX gives
\* for node k in 0..M and main state s in 0..5 and the offsets P7R_XMX gives
\* for the special states are pairwise distinct; the main offsets are below
\* (M+1)*6; the special offsets follow them in the order E, N, J, B, L, G,
\* C, JJ, CC; and every offset is below the row width (M+1)*6 + 9.
C13_CellAddressing ==
  rmx # NoRefmx =>
    LET M == rmx.M
    IN  /\ \A v \in MainCells(M), w \in MainCells(M) :
             v # w => P7R_MX(v[1], v[2]) # P7R_MX(w[1], w[2])
        /\ \A v \in MainCells(M) :
             /\ P7R_MX(v[1], v[2]) >= 0
             /\ P7R_MX(v[1], v[2]) < (M + 1) * 6
        /\ \A i \in 1..9 : P7R_XMX(M, SpecialOrder[i]) = (M + 1) * 6 + (i - 1)
        /\ \A i \in 1..9 : P7R_XMX(M, SpecialOrder[i]) < (M + 1) * 6 + 9
        /\ \A i \in 1..9, v \in MainCells(M) :
             P7R_XMX(M, SpecialOrder[i]) # P7R_MX(v[1], v[2])

\* C13 witness: a matrix filled by Viterbi for the longest model and
\* sequence, whose CC cell of the last row is the last cell of the buffer.
C13_Witness ==
  /\ rmx # NoRefmx
  /\ rmx.type = p7R_VITERBI
  /\ rmx.M = MaxRefM
  /\ rmx.L = MaxRefL
  /\ rmx.dp[rmx.L + 1].off + P7R_XMX(rmx.M, p7R_CC) = rmx.allocN - 1
  /\ rmx.cells[rmx.allocN] = Computed

====
